---- MODULE Spec2Model ----
(***************************************************************************)
(* Model of the mosaic tile generator (class MosaicGenerator) of the        *)
(* page-aware MosaicGrid component.  One generatePattern() call is a pass   *)
(* over the phases reset / fixed tiles / random tiles / gap filling: the    *)
(* model takes one step for the reset, one for the strategy decision, one   *)
(* for each fixed tile, one for each random attempt and one for the gap     *)
(* filling.                                                                 *)
(*                                                                          *)
(* The occupancy matrix `grid` is the set of cells that hold `true`.  A     *)
(* JavaScript array accepts a write at a negative column as a property of   *)
(* the row array and returns it on a later read, so the set also holds such *)
(* cells; a row outside [0, gridHeight) does not exist and indexing it      *)
(* raises a TypeError.                                                      *)
(*                                                                          *)
(* Spec is the generator on every grid and fixed-tile list of the bounds.   *)
(* SpecTall is the generator on the 15-row grid the component starts with,  *)
(* SpecBudget the generator with a budget of several attempts, SpecReplay a *)
(* generator whose later calls repeat the draws of its first call,          *)
(* SpecTileType the function getRandomTileType() on every draw, and         *)
(* SpecComponent the MosaicGrid component: its state, its handlers and      *)
(* effects, and the generators its generateMosaic() runs.  The fixed-tile   *)
(* loop of the simpler generator (src/MosaicGrid.tsx) is an operator that   *)
(* is run on the grid and the list of the page-aware generator.             *)
(***************************************************************************)
EXTENDS Integers, Sequences, FiniteSets, TLC

VARIABLES
    MAX_PLACEMENT_ATTEMPTS, \* GRID_CONFIG.MAX_PLACEMENT_ATTEMPTS
    pc,                 \* position of the caller / of generatePattern()
    gridWidth,          \* MosaicGenerator.gridWidth
    gridHeight,         \* MosaicGenerator.gridHeight
    fixedTiles,         \* MosaicGenerator.fixedTiles
    grid,               \* MosaicGenerator.grid: the cells that are true
    tiles,              \* the local `tiles` of generatePattern()
    placementStrategy,  \* the local `placementStrategy` of generatePattern()
    fixedIndex,         \* position of the for-of loop of placeFixedTiles
    attempts,           \* loop counter of placeRandomTiles
    error,              \* exception that left the constructor or generatePattern()
    outOfRange,         \* some read or write of grid went outside the matrix
    repeated,           \* generatePattern() was called more than once
    typeDraw,           \* `rand` of a call of getRandomTileType() on its own
    typeResult,         \* what that call of getRandomTileType() returned
    drawLog,            \* the draws of the attempts of this call, when recorded
    firstCall,          \* the list and the draws of the first call, when kept
    innerSize,          \* window.innerWidth and window.innerHeight
    currentPage,        \* MosaicGrid state `currentPage`
    gridDimensions,     \* MosaicGrid state `gridDimensions`, with its identity
    tilesState,         \* MosaicGrid state `tiles`
    isInitialLoad,      \* MosaicGrid state `isInitialLoad`
    rendered,           \* the state the callbacks of the last render closed over
    pending,            \* the state updates queued since the last render
    effects,            \* the effects of the last render that have not run
    handler,            \* the handler or effect that is running
    generatedFrom,      \* the fixed tiles the list in tilesState was generated from
    lastEvent           \* the last click or resize that was handled

vars == <<MAX_PLACEMENT_ATTEMPTS, pc, gridWidth, gridHeight, fixedTiles, grid,
          tiles, placementStrategy, fixedIndex, attempts, error, outOfRange,
          repeated, typeDraw, typeResult, drawLog, firstCall,
          innerSize, currentPage, gridDimensions, tilesState, isInitialLoad,
          rendered, pending, effects, handler, generatedFrom, lastEvent>>

\* the variables of the MosaicGrid component
component == <<innerSize, currentPage, gridDimensions, tilesState,
               isInitialLoad, rendered, pending, effects, handler,
               generatedFrom, lastEvent>>

----------------------------------------------------------------------------
(* Bounds of the model *)

\* the constructor is also called with dimensions down to -MaxNegative
MaxNegative == 1
MaxWidth == 3
MaxHeight == 2
\* the largest attempt budget of placeRandomTiles: MaxAttempts on every grid
\* and fixed-tile list of the bounds, where an attempt is drawn from every
\* tile type and cell; MaxBudget on the grids of SpecBudget and SpecReplay,
\* where the loop of placeRandomTiles repeats
MaxAttempts == 1
MaxBudget == 3

----------------------------------------------------------------------------
(* Optional values: `undefined` and a defined value *)

Undefined == <<>>
Some(v) == <<v>>
IsDefined(x) == x /= Undefined
ValueOf(x) == x[1]
OrElse(x, d) == IF IsDefined(x) THEN ValueOf(x) ELSE d

----------------------------------------------------------------------------
(* Configuration *)

TileType(w, h, weight) == [width |-> w, height |-> h, weight |-> weight]

\* weights in hundredths
TILE_TYPES ==
    << TileType(1, 1, 30), TileType(2, 1, 20), TileType(1, 2, 20),
       TileType(2, 2, 10), TileType(1, 3, 8),  TileType(3, 1, 8),
       TileType(2, 3, 2),  TileType(3, 2, 2) >>

EssentialText == "Charlie Beutter"

FixedTile(row, col, w, h, color, text, altRow, altCol, altWidth, altHeight) ==
    [row |-> row, col |-> col, width |-> w, height |-> h, color |-> color,
     text |-> text, url |-> Undefined, fontSize |-> Undefined,
     altRow |-> altRow, altCol |-> altCol,
     altWidth |-> altWidth, altHeight |-> altHeight]

\* a fixed tile without alternative position
Plain(row, col, w, h, text) ==
    FixedTile(row, col, w, h, 10, Some(text),
              Undefined, Undefined, Undefined, Undefined)

\* a fixed tile with an alternative position of the same size
WithAlt(row, col, w, h, text, altRow, altCol) ==
    FixedTile(row, col, w, h, 10, Some(text),
              Some(altRow), Some(altCol), Undefined, Undefined)


\* The fixed-tile lists a generator is constructed with.
FixedTileSets ==
    { << >>,
      \* one essential tile
      << Plain(0, 0, 1, 1, EssentialText) >>,
      \* two tiles side by side, with swapped alternates
      << WithAlt(0, 0, 1, 1, EssentialText, 0, 1),
         WithAlt(0, 1, 1, 1, "About", 0, 0) >>,
      \* primaries on the same cell, alternates side by side
      << WithAlt(0, 0, 1, 1, EssentialText, 0, 0),
         WithAlt(0, 0, 1, 1, "About", 0, 1) >>,
      \* primaries on the same cell, alternates on the same other cell
      << WithAlt(0, 0, 1, 1, EssentialText, 0, 1),
         WithAlt(0, 0, 1, 1, "About", 0, 1) >>,
      \* second primary beyond the usable span of a narrow grid
      << WithAlt(0, 1, 1, 1, EssentialText, 0, 0),
         WithAlt(0, 2, 1, 1, "About", 0, 1) >>,
      \* primaries that never fit, alternates side by side
      << WithAlt(0, 5, 1, 1, EssentialText, 0, 0),
         WithAlt(0, 5, 1, 1, "About", 0, 1) >>,
      \* anchored to the right edge
      << Plain(0, -3, 1, 1, "v1.2") >>,
      \* anchored to the bottom edge
      << Plain(-1, 0, 1, 1, "v1.2") >>,
      \* a tile that never fits, then an essential tile anchored to the bottom
      << Plain(0, 5, 1, 1, "About"),
         Plain(-2, 0, 1, 1, EssentialText) >>,
      \* a wide essential tile and a tile that declares altRow only
      << Plain(0, 0, 3, 1, EssentialText),
         FixedTile(0, 0, 1, 1, 10, Some("About"),
                   Some(0), Undefined, Undefined, Undefined) >>,
      \* an essential tile that is narrower at its alternative position
      << FixedTile(0, 0, 2, 1, 9, Some(EssentialText),
                   Some(0), Some(0), Some(1), Undefined) >> }

\* The values of Math.random() that select a tile type, on the scale of the
\* weights.  getRandomTileType only compares the draw with the cumulative
\* weights, and a value r of the model stands for the doubles u with
\* u < (cumulative weight i) exactly when r < CumulativeWeight(i).  In
\* doubles the eight weights add up to 0.9999999999999999 = 1 - 2^-53, so a
\* draw in [0, 1) need not be below the last cumulative weight: 100 stands
\* for such a draw.
Draws == 0 .. 100

\* the draws placeRandomTiles is run with: one for each entry of TILE_TYPES
\* and one that is below no cumulative weight
TypeDraws == {0, 30, 50, 70, 80, 88, 96, 98, 100}

\* Math.floor(Math.random() * 8) + 1, and the Date.now() and the text of
\* Math.random() at the end of an id: no branch of the generator depends on
\* them, and one value of each stands for all.  Tiles that share the
\* timestamp and the random text are the hard case for distinct ids.
\* Where the draws of the calls are recorded and compared, the colour is
\* drawn from both ends of its range 1 .. 8, and the calls that follow the
\* first one run at a later time.
ColorChoices == IF IsDefined(drawLog) THEN {1, 8} ELSE {1}
Timestamps == IF IsDefined(firstCall) THEN {1} ELSE {0}
IdSuffixes == {"0.25"}

----------------------------------------------------------------------------
(* MosaicGenerator: helpers *)

\* a normalization that counts a negative coordinate from the full dimension
normalizeCoordinateFromFullDimension(coordinate, dimension) ==
    IF coordinate < 0 THEN dimension + 1 + coordinate ELSE coordinate

normalizeCoordinate(coordinate, dimension) ==
    IF coordinate < 0 THEN dimension + coordinate ELSE coordinate

\* a reset that keeps the cells of the previous pass
resetGridKeepsCells == grid

\* the matrix built by resetGrid: no cell is true
resetGrid == {}

\* the cells of a rectangle
Cells(row, col, width, height) ==
    { <<r, c>> : r \in row .. (row + height - 1), c \in col .. (col + width - 1) }

\* the cells the matrix has: rows [0, gridHeight), columns [0, gridWidth)
Matrix == Cells(0, 0, gridWidth, gridHeight)

\* canPlaceTile: "true", "false", or "throw" when it indexes a row that does
\* not exist (this.grid[r] is undefined and this.grid[r][c] a TypeError)
canPlaceTile(row, col, width, height) ==
    IF row + height > gridHeight \/ col + width > gridWidth THEN "false"
    ELSE IF Cells(row, col, width, height) = {} THEN "true"
    ELSE IF row < 0 THEN "throw"
    ELSE IF Cells(row, col, width, height) \cap grid /= {} THEN "false"
    ELSE "true"

\* canPlaceTile reads a cell outside the matrix: the bounds test passes and
\* the first cell the loops read is at a negative row or column
canPlaceTileReadsOutside(row, col, width, height) ==
    /\ ~(row + height > gridHeight \/ col + width > gridWidth)
    /\ Cells(row, col, width, height) /= {}
    /\ (row < 0 \/ col < 0)

\* a placeTile that marks the first row of the rectangle only
placeTileFirstRowOnly(row, col, width, height) ==
    grid \cup Cells(row, col, width, 1)

\* the matrix after placeTile
placeTile(row, col, width, height) ==
    grid \cup Cells(row, col, width, height)

\* placeTile writes a cell outside the matrix
placeTileWritesOutside(row, col, width, height) ==
    ~(Cells(row, col, width, height) \subseteq Matrix)

RECURSIVE CumulativeWeight(_)
CumulativeWeight(i) ==
    IF i = 0 THEN 0 ELSE CumulativeWeight(i - 1) + TILE_TYPES[i].weight

\* a selection that compares with `rand <= cumulative`
getRandomTileTypeInclusive(rand) ==
    LET hits == { i \in 1 .. Len(TILE_TYPES) : rand <= CumulativeWeight(i) }
    IN  IF hits = {} THEN TILE_TYPES[1]
        ELSE TILE_TYPES[CHOOSE i \in hits : \A j \in hits : i <= j]

\* getRandomTileType when Math.random() returns rand
getRandomTileType(rand) ==
    LET hits == { i \in 1 .. Len(TILE_TYPES) : rand < CumulativeWeight(i) }
    IN  IF hits = {} THEN TILE_TYPES[1]
        ELSE TILE_TYPES[CHOOSE i \in hits : \A j \in hits : i <= j]

\* the values Math.floor(Math.random() * dimension) can take
RandomIndex(dimension) ==
    IF dimension > 0 THEN 0 .. (dimension - 1)
    ELSE dimension .. 0

getNormalizedTilePosition(tile, useAlternative) ==
    IF useAlternative /\ IsDefined(tile.altRow) /\ IsDefined(tile.altCol)
    THEN [row    |-> normalizeCoordinate(ValueOf(tile.altRow), gridHeight - 1),
          col    |-> normalizeCoordinate(ValueOf(tile.altCol), gridWidth - 1),
          width  |-> OrElse(tile.altWidth, tile.width),
          height |-> OrElse(tile.altHeight, tile.height)]
    ELSE [row    |-> normalizeCoordinate(tile.row, gridHeight - 1),
          col    |-> normalizeCoordinate(tile.col, gridWidth - 1),
          width  |-> tile.width,
          height |-> tile.height]

\* a validation of fixed tiles against the full grid
isValidPlacementFullGrid(row, col, width, height) ==
    canPlaceTile(row, col, width, height)

\* isValidPlacement: "true", "false" or "throw"
isValidPlacement(row, col, width, height) ==
    IF col + width <= gridWidth - 1 /\ row + height <= gridHeight - 1
    THEN canPlaceTile(row, col, width, height)
    ELSE "false"

isValidPlacementReadsOutside(row, col, width, height) ==
    /\ col + width <= gridWidth - 1
    /\ row + height <= gridHeight - 1
    /\ canPlaceTileReadsOutside(row, col, width, height)

ValidAt(p) == isValidPlacement(p.row, p.col, p.width, p.height)
ReadsOutsideAt(p) == isValidPlacementReadsOutside(p.row, p.col, p.width, p.height)

----------------------------------------------------------------------------
(* MosaicGenerator: fixed tiles *)

\* the position determinePlacementStrategy tests for a tile in its second
\* pass: the alternative one when both altRow and altCol are defined
AlternativeOrPrimary(tile) ==
    getNormalizedTilePosition(tile, IsDefined(tile.altRow) /\ IsDefined(tile.altCol))

CheckedPosition(tile, alternativePass) ==
    IF alternativePass THEN AlternativeOrPrimary(tile)
    ELSE getNormalizedTilePosition(tile, FALSE)

\* this.fixedTiles.every(...) from tile i on: "true", "false" (at the first
\* tile that fails; later tiles are not tested) or "throw"
RECURSIVE EveryValid(_, _)
EveryValid(i, alternativePass) ==
    IF i > Len(fixedTiles) THEN "true"
    ELSE LET valid == ValidAt(CheckedPosition(fixedTiles[i], alternativePass))
         IN  IF valid = "true" THEN EveryValid(i + 1, alternativePass) ELSE valid

\* the tiles that every(...) tests: all up to the first that is not valid
RECURSIVE TestedBy(_, _)
TestedBy(i, alternativePass) ==
    IF i > Len(fixedTiles) THEN {}
    ELSE IF ValidAt(CheckedPosition(fixedTiles[i], alternativePass)) = "true"
         THEN {i} \cup TestedBy(i + 1, alternativePass)
         ELSE {i}

\* a strategy decision that prefers the alternative positions
determinePlacementStrategyAlternativeFirst ==
    LET canPlacePrimary == EveryValid(1, FALSE)
        canPlaceAlternative == EveryValid(1, TRUE)
    IN  IF canPlaceAlternative = "throw" THEN "throw"
        ELSE IF canPlaceAlternative = "true" THEN "alternative"
        ELSE IF canPlacePrimary = "throw" THEN "throw"
        ELSE IF canPlacePrimary = "true" THEN "primary"
        ELSE "fallback"

\* "primary", "alternative", "fallback", or "throw"
determinePlacementStrategy ==
    LET canPlacePrimary == EveryValid(1, FALSE)
        canPlaceAlternative == EveryValid(1, TRUE)
    IN  IF canPlacePrimary = "throw" THEN "throw"
        ELSE IF canPlacePrimary = "true" THEN "primary"
        ELSE IF canPlaceAlternative = "throw" THEN "throw"
        ELSE IF canPlaceAlternative = "true" THEN "alternative"
        ELSE "fallback"

determineReadsOutside ==
    \/ \E i \in TestedBy(1, FALSE) :
          ReadsOutsideAt(CheckedPosition(fixedTiles[i], FALSE))
    \/ /\ EveryValid(1, FALSE) = "false"
       /\ \E i \in TestedBy(1, TRUE) :
             ReadsOutsideAt(CheckedPosition(fixedTiles[i], TRUE))

\* an id without the position of the tile
TileIdWithoutPosition(prefix, row, col, time, random) ==
    prefix \o "-" \o ToString(time) \o "-" \o random

\* the id template `${prefix}-${row}-${col}-${Date.now()}-${Math.random()}`
TileId(prefix, row, col, time, random) ==
    prefix \o "-" \o ToString(row) \o "-" \o ToString(col) \o "-"
           \o ToString(time) \o "-" \o random

createTileFromFixed(fixedTile, row, col, width, height, time, random) ==
    [row |-> row, col |-> col, width |-> width, height |-> height,
     id |-> TileId("fixed", row, col, time, random),
     color |-> fixedTile.color, text |-> fixedTile.text,
     url |-> fixedTile.url, fontSize |-> fixedTile.fontSize,
     kind |-> "fixed"]

\* a filler tile whose colour is taken from the clock and not from the draw
createFillerTileColorFromClock(prefix, row, col, width, height, time, random, color) ==
    [row |-> row, col |-> col, width |-> width, height |-> height,
     id |-> TileId(prefix, row, col, time, random),
     color |-> (time % 8) + 1, text |-> Undefined,
     url |-> Undefined, fontSize |-> Undefined,
     kind |-> prefix]

\* the tile pushed by placeRandomTiles ("random") and fillEmptyCells ("fill")
createFillerTile(prefix, row, col, width, height, time, random, color) ==
    [row |-> row, col |-> col, width |-> width, height |-> height,
     id |-> TileId(prefix, row, col, time, random),
     color |-> color, text |-> Undefined,
     url |-> Undefined, fontSize |-> Undefined,
     kind |-> prefix]

\* the first tile with the essential text: 0 when there is none
charlieTile ==
    LET found == { i \in 1 .. Len(fixedTiles) :
                      fixedTiles[i].text = Some(EssentialText) }
    IN  IF found = {} THEN 0
        ELSE CHOOSE i \in found : \A j \in found : i <= j

----------------------------------------------------------------------------
(* Where generatePattern() continues *)

\* GRID_CONFIG.MAX_PLACEMENT_ATTEMPTS is a configuration value that
\* placeRandomTiles only compares its loop counter with: 1000 in the source,
\* any value of 0 .. MaxAttempts in the model, and any value of
\* 0 .. MaxBudget where the attempts of one call are followed one by one
\* (see InitGeneratorWith)
\* an attempt loop that is left after its first iteration
AfterRandomFirstAttemptOnly(count) ==
    IF count = 0 /\ count < MAX_PLACEMENT_ATTEMPTS THEN "random" ELSE "fill"

AfterRandom(count) ==
    IF count < MAX_PLACEMENT_ATTEMPTS THEN "random" ELSE "fill"

\* a loop over the fixed tiles that is left after its first iteration
AfterFixedFirstTileOnly(index) == AfterRandom(0)

AfterFixed(index) ==
    IF index <= Len(fixedTiles) THEN "fixed" ELSE AfterRandom(0)

----------------------------------------------------------------------------
(* Initial state and operations *)

\* the module is loaded and no generator is constructed
InitGeneratorWith(budgets) ==
    /\ MAX_PLACEMENT_ATTEMPTS \in budgets
    /\ pc = "new"
    /\ gridWidth = 0
    /\ gridHeight = 0
    /\ fixedTiles = << >>
    /\ grid = {}
    /\ tiles = << >>
    /\ placementStrategy = "none"
    /\ fixedIndex = 0
    /\ attempts = 0
    /\ error = "none"
    /\ outOfRange = FALSE
    /\ repeated = FALSE
    /\ typeDraw = Undefined
    /\ typeResult = Undefined
    /\ firstCall = Undefined

\* the same, with a budget of at most MaxAttempts attempts
InitGenerator == InitGeneratorWith(0 .. MaxAttempts)

----------------------------------------------------------------------------
(* MosaicGrid component: configuration and initial state *)

PageType == {"home", "about", "projects"}

\* GRID_CONFIG.TILE_SIZE
TILE_SIZE == 60

\* a fixed tile of the page configuration
PageTile(row, col, w, h, color, text, url, altRow, altCol, fontSize) ==
    [row |-> row, col |-> col, width |-> w, height |-> h, color |-> color,
     text |-> Some(text), url |-> url, fontSize |-> Some(fontSize),
     altRow |-> Some(altRow), altCol |-> Some(altCol),
     altWidth |-> Undefined, altHeight |-> Undefined]

STATIC_TILES ==
    << PageTile(1, 1, 4, 1, 9, "Charlie Beutter", Undefined, 1, 1, "1.6") >>

PAGE_SPECIFIC_TILES ==
    [page \in PageType |->
        CASE page = "home" ->
               << PageTile(1, 6, 2, 1, 10, "About", Undefined, 3, 1, "1.3"),
                  PageTile(1, 9, 2, 1, 10, "Projects", Undefined, 5, 1, "1.3") >>
          [] page = "about" ->
               << PageTile(1, 6, 5, 1, 10, "Hey! I'm Charlie. I code stuff.",
                           Undefined, 3, 1, "1.1"),
                  PageTile(1, 12, 2, 1, 10, "My Github",
                           Some("https://www.github.com/charliebutter"),
                           5, 1, "1.1") >>
          [] page = "projects" ->
               << PageTile(1, 6, 5, 1, 10, "Fantasy Name Generator",
                           Some("https://fantasy-names.charliebeutter.com/"),
                           3, 1, "1.2"),
                  PageTile(1, 12, 2, 1, 10, "Circuits",
                           Some("https://circuits.charliebeutter.com"),
                           5, 1, "1.2") >>]

\* allFixedTiles of generateMosaic for a page
allFixedTiles(page) == STATIC_TILES \o PAGE_SPECIFIC_TILES[page]

\* window.innerWidth and window.innerHeight, in pixels: a narrow and tall
\* window (grid 6x7) and a wide and low one (grid 12x3)
WindowSizes == { <<300, 360>>, <<700, 130>> }

\* the window the page is loaded in
LoadedSize == <<300, 360>>

\* no state update is queued
NoUpdates ==
    [currentPage |-> Undefined, gridDimensions |-> Undefined,
     tiles |-> Undefined, isInitialLoad |-> Undefined]

\* the component is mounted: the first render has used the initial state
\* of the useState calls and its two effects have not run yet
InitComponent ==
    /\ innerSize = LoadedSize
    /\ currentPage = "home"
    /\ gridDimensions = [width |-> 20, height |-> 15, ref |-> 0]
    /\ tilesState = << >>
    /\ isInitialLoad = TRUE
    /\ rendered = [gridDimensions |-> [width |-> 20, height |-> 15, ref |-> 0],
                   currentPage |-> "home"]
    /\ pending = NoUpdates
    /\ effects = << "resize", "generate" >>
    /\ handler = "none"
    /\ generatedFrom = << >>
    /\ lastEvent = [kind |-> "mount", text |-> Undefined, page |-> "home"]

\* the draws of the calls are not recorded
Init == InitGenerator /\ InitComponent /\ drawLog = Undefined

\* Array(n) raises a RangeError for a negative n; the rows are only built
\* when there is at least one
constructorThrows(width, height) ==
    height < 0 \/ (height > 0 /\ width < 0)

\* new MosaicGenerator(width, height, fixed)
Construct(width, height, fixed) ==
    /\ pc = "new"
    /\ gridWidth' = width
    /\ gridHeight' = height
    /\ fixedTiles' = fixed
    /\ grid' = resetGrid
    /\ IF constructorThrows(width, height)
       THEN pc' = "threw" /\ error' = "RangeError"
       ELSE pc' = "ready" /\ error' = "none"
    /\ UNCHANGED component
    /\ UNCHANGED <<MAX_PLACEMENT_ATTEMPTS, tiles, placementStrategy,
                   fixedIndex, attempts, outOfRange, repeated, typeDraw,
                   typeResult, drawLog, firstCall>>

\* generatePattern(): this.resetGrid(); const tiles = []
GenerateReset ==
    /\ \/ pc \in {"ready", "done"}
       \/ pc = "threw" /\ error = "TypeError"
    /\ repeated' = (pc /= "ready")
    /\ grid' = resetGrid
    /\ tiles' = << >>
    /\ placementStrategy' = "none"
    /\ fixedIndex' = 0
    /\ attempts' = 0
    /\ error' = "none"
    /\ outOfRange' = FALSE
    /\ drawLog' = IF IsDefined(drawLog) THEN Some(<< >>) ELSE Undefined
    /\ pc' = "determine"
    /\ UNCHANGED component
    /\ UNCHANGED <<MAX_PLACEMENT_ATTEMPTS, gridWidth, gridHeight, fixedTiles,
                   typeDraw, typeResult, firstCall>>

\* generatePattern(): const placementStrategy = this.determinePlacementStrategy()
Determine ==
    /\ pc = "determine"
    /\ outOfRange' = (outOfRange \/ determineReadsOutside)
    /\ IF determinePlacementStrategy = "throw"
       THEN /\ pc' = "threw"
            /\ error' = "TypeError"
            /\ UNCHANGED <<placementStrategy, fixedIndex>>
       ELSE /\ placementStrategy' = determinePlacementStrategy
            /\ fixedIndex' = 1
            /\ pc' = "fixed"
            /\ UNCHANGED error
    /\ UNCHANGED component
    /\ UNCHANGED <<MAX_PLACEMENT_ATTEMPTS, gridWidth, gridHeight, fixedTiles,
                   grid, tiles, attempts, repeated, typeDraw, typeResult,
                   drawLog, firstCall>>

\* the body shared by placeFixedTiles and placeEssentialTiles: test the
\* position p of fixedTile and, when valid, mark it and push the tile
PlaceFixedAt(fixedTile, p, nextPc) ==
    /\ outOfRange' = (outOfRange \/ ReadsOutsideAt(p)
                        \/ (ValidAt(p) = "true"
                            /\ placeTileWritesOutside(p.row, p.col, p.width, p.height)))
    /\ CASE ValidAt(p) = "throw" ->
              /\ pc' = "threw"
              /\ error' = "TypeError"
              /\ UNCHANGED <<grid, tiles>>
         [] ValidAt(p) = "false" ->
              /\ pc' = nextPc
              /\ UNCHANGED <<grid, tiles, error>>
         [] ValidAt(p) = "true" ->
              /\ grid' = placeTile(p.row, p.col, p.width, p.height)
              /\ \E time \in Timestamps, random \in IdSuffixes :
                    tiles' = Append(tiles,
                          createTileFromFixed(fixedTile, p.row, p.col,
                                              p.width, p.height, time, random))
              /\ pc' = nextPc
              /\ UNCHANGED error

\* a choice made tile by tile: the alternative position for the tile whose
\* primary position is not valid
useAlternativePerTile ==
    ValidAt(getNormalizedTilePosition(fixedTiles[fixedIndex], FALSE)) /= "true"

\* placeFixedTiles: const useAlternative = strategy === 'alternative'
useAlternative == placementStrategy = "alternative"

\* placeFixedTiles, strategy 'primary' or 'alternative': one iteration of
\* the loop over this.fixedTiles
PlaceFixedTile ==
    /\ pc = "fixed"
    /\ placementStrategy \in {"primary", "alternative"}
    /\ fixedIndex <= Len(fixedTiles)
    /\ PlaceFixedAt(fixedTiles[fixedIndex],
                    getNormalizedTilePosition(fixedTiles[fixedIndex],
                                              useAlternative),
                    AfterFixed(fixedIndex + 1))
    /\ fixedIndex' = fixedIndex + 1
    /\ UNCHANGED component
    /\ UNCHANGED <<MAX_PLACEMENT_ATTEMPTS, gridWidth, gridHeight, fixedTiles,
                   placementStrategy, attempts, repeated, typeDraw,
                   typeResult, drawLog, firstCall>>

\* placeFixedTiles with no tile left to place
PlaceFixedEnd ==
    /\ pc = "fixed"
    /\ placementStrategy \in {"primary", "alternative"}
    /\ fixedIndex > Len(fixedTiles)
    /\ pc' = AfterRandom(0)
    /\ UNCHANGED component
    /\ UNCHANGED <<MAX_PLACEMENT_ATTEMPTS, gridWidth, gridHeight, fixedTiles,
                   grid, tiles, placementStrategy, fixedIndex, attempts,
                   error, outOfRange, repeated, typeDraw, typeResult, drawLog,
                   firstCall>>

\* placeFixedTiles, strategy 'fallback': placeEssentialTiles
PlaceEssentialTiles ==
    /\ pc = "fixed"
    /\ placementStrategy = "fallback"
    /\ IF charlieTile = 0
       THEN /\ pc' = AfterRandom(0)
            /\ UNCHANGED <<grid, tiles, error, outOfRange>>
       ELSE PlaceFixedAt(fixedTiles[charlieTile],
                         getNormalizedTilePosition(fixedTiles[charlieTile], FALSE),
                         AfterRandom(0))
    /\ UNCHANGED component
    /\ UNCHANGED <<MAX_PLACEMENT_ATTEMPTS, gridWidth, gridHeight, fixedTiles,
                   placementStrategy, fixedIndex, attempts, repeated,
                   typeDraw, typeResult, drawLog, firstCall>>

\* placeRandomTiles: one iteration of the attempt loop, in which
\* Math.random() returns rand for the tile type and the values that give row
\* and col
\* the draws of this call followed by the draws `entries`, when recorded:
\* <<rand, row, col>> for the three draws of an attempt and <<color>> for
\* the colour draw of a tile that is pushed
Logged(entries) ==
    IF IsDefined(drawLog) THEN Some(ValueOf(drawLog) \o entries) ELSE Undefined

RandomAttemptWith(rand, row, col) ==
    /\ pc = "random"
    /\ attempts < MAX_PLACEMENT_ATTEMPTS
    /\ attempts' = attempts + 1
    /\ LET tileType == getRandomTileType(rand)
           can == canPlaceTile(row, col, tileType.width, tileType.height)
       IN  /\ outOfRange' =
                 (outOfRange
                    \/ canPlaceTileReadsOutside(row, col, tileType.width,
                                                tileType.height)
                    \/ (can = "true"
                        /\ placeTileWritesOutside(row, col, tileType.width,
                                                  tileType.height)))
           /\ CASE can = "throw" ->
                     /\ pc' = "threw"
                     /\ error' = "TypeError"
                     /\ drawLog' = Logged(<< <<rand, row, col>> >>)
                     /\ UNCHANGED <<grid, tiles>>
                [] can = "false" ->
                     /\ pc' = AfterRandom(attempts + 1)
                     /\ drawLog' = Logged(<< <<rand, row, col>> >>)
                     /\ UNCHANGED <<grid, tiles, error>>
                [] can = "true" ->
                     /\ grid' = placeTile(row, col, tileType.width, tileType.height)
                     /\ \E time \in Timestamps, random \in IdSuffixes,
                           color \in ColorChoices :
                           /\ tiles' = Append(tiles,
                                 createFillerTile("random", row, col,
                                                  tileType.width, tileType.height,
                                                  time, random, color))
                           /\ drawLog' = Logged(<< <<rand, row, col>>,
                                                   <<color>> >>)
                     /\ pc' = AfterRandom(attempts + 1)
                     /\ UNCHANGED error
    /\ UNCHANGED component
    /\ UNCHANGED <<MAX_PLACEMENT_ATTEMPTS, gridWidth, gridHeight, fixedTiles,
                   placementStrategy, fixedIndex, repeated, typeDraw,
                   typeResult, firstCall>>

\* placeRandomTiles: one iteration of the attempt loop, for every draw
RandomAttempt ==
    \E rand \in TypeDraws, row \in RandomIndex(gridHeight),
       col \in RandomIndex(gridWidth) : RandomAttemptWith(rand, row, col)

\* a row loop that stops one row early (row < this.gridHeight - 1)
FillEndBeforeLastRow ==
    IF gridHeight > 1 /\ gridWidth > 0 THEN (gridHeight - 1) * gridWidth ELSE 0

\* the number of iterations of the inner loop of fillEmptyCells
FillEnd == IF gridHeight > 0 /\ gridWidth > 0 THEN gridHeight * gridWidth ELSE 0

\* loops that scan the grid column by column
RECURSIVE fillEmptyCellsByColumn(_, _, _)
fillEmptyCellsByColumn(cursor, g, list) ==
    IF cursor >= FillEnd
    THEN { [grid |-> g, tiles |-> list, colors |-> << >>] }
    ELSE LET row == cursor % gridHeight
             col == cursor \div gridHeight
         IN  IF <<row, col>> \in g
             THEN fillEmptyCellsByColumn(cursor + 1, g, list)
             ELSE UNION { { [r EXCEPT !.colors = << <<color>> >> \o @] :
                            r \in fillEmptyCellsByColumn(cursor + 1,
                                     g \cup {<<row, col>>},
                                     Append(list,
                                         createFillerTile("fill", row, col, 1, 1,
                                                          time, random, color))) } :
                          time \in Timestamps, random \in IdSuffixes,
                          color \in ColorChoices }

\* the inner loop of fillEmptyCells on one row, from column col on, for the
\* matrix g and the list list: the matrices and lists it can end with, and
\* the colour draws made on the way
RECURSIVE fillEmptyRow(_, _, _, _)
fillEmptyRow(row, col, g, list) ==
    IF col >= gridWidth
    THEN { [grid |-> g, tiles |-> list, colors |-> << >>] }
    ELSE IF <<row, col>> \in g
         THEN fillEmptyRow(row, col + 1, g, list)
         ELSE UNION { { [r EXCEPT !.colors = << <<color>> >> \o @] :
                        r \in fillEmptyRow(row, col + 1, g \cup {<<row, col>>},
                                 Append(list,
                                     createFillerTile("fill", row, col, 1, 1,
                                                      time, random, color))) } :
                      time \in Timestamps, random \in IdSuffixes,
                      color \in ColorChoices }

\* the loops of fillEmptyCells from the first cell of a row (cell `cursor`
\* in row-major order) on, for the matrix g and the list list: the matrices
\* and lists they can end with, and the colour draws made on the way
RECURSIVE fillEmptyCells(_, _, _)
fillEmptyCells(cursor, g, list) ==
    IF cursor >= FillEnd
    THEN { [grid |-> g, tiles |-> list, colors |-> << >>] }
    ELSE UNION { { [q EXCEPT !.colors = r.colors \o @] :
                   q \in fillEmptyCells(cursor + gridWidth, r.grid, r.tiles) } :
                 r \in fillEmptyRow(cursor \div gridWidth, 0, g, list) }

\* generatePattern(): this.fillEmptyCells(tiles); return tiles
FillEmptyCells ==
    /\ pc = "fill"
    /\ \E result \in fillEmptyCells(0, grid, tiles) :
          /\ grid' = result.grid
          /\ tiles' = result.tiles
          /\ drawLog' = Logged(result.colors)
    /\ pc' = "done"
    /\ UNCHANGED component
    /\ UNCHANGED <<MAX_PLACEMENT_ATTEMPTS, gridWidth, gridHeight, fixedTiles,
                   placementStrategy, fixedIndex, attempts, error, outOfRange,
                   repeated, typeDraw, typeResult, firstCall>>

Dimensions(max) == (0 - MaxNegative) .. max

Next ==
    \/ \E width \in Dimensions(MaxWidth), height \in Dimensions(MaxHeight),
          fixed \in FixedTileSets : Construct(width, height, fixed)
    \/ GenerateReset
    \/ Determine
    \/ PlaceFixedTile
    \/ PlaceFixedEnd
    \/ PlaceEssentialTiles
    \/ RandomAttempt
    \/ FillEmptyCells

Spec == Init /\ [][Next]_vars

\* a fixed tile anchored to the bottom and to the right edge
TallFixedTiles == << Plain(-1, -1, 1, 1, "v1.2") >>

\* The generator on a grid of 15 rows, the height the component starts
\* with, and the fixed tile anchored to the edges.  With this list the
\* strategy is never 'fallback' and the loop of placeFixedTiles has one
\* iteration.
NextTall ==
    \/ Construct(2, 15, TallFixedTiles)
    \/ GenerateReset
    \/ Determine
    \/ PlaceFixedTile
    \/ RandomAttempt
    \/ FillEmptyCells

SpecTall == Init /\ [][NextTall]_vars

\* the fixed-tile lists of the generator with a budget of several attempts:
\* none, and one tile in the top left cell
BudgetFixedTileSets == { << >>, << Plain(0, 0, 1, 1, EssentialText) >> }

\* a budget of at most MaxBudget attempts
InitBudget ==
    InitGeneratorWith(0 .. MaxBudget) /\ InitComponent /\ drawLog = Undefined

\* The generator on a 3x2 grid with a budget of several attempts: the loop
\* of placeRandomTiles goes round, after attempts that place a tile and
\* after attempts that do not.
NextBudget ==
    \/ \E fixed \in BudgetFixedTileSets : Construct(3, 2, fixed)
    \/ GenerateReset
    \/ Determine
    \/ PlaceFixedTile
    \/ PlaceFixedEnd
    \/ RandomAttempt
    \/ FillEmptyCells

SpecBudget == InitBudget /\ [][NextBudget]_vars

\* the fixed-tile lists of the generator that is called twice: none, one
\* tile that fits, and two tiles that fit side by side on the wider grid only
ReplayFixedTileSets ==
    { << >>,
      << Plain(0, 0, 1, 1, EssentialText) >>,
      << WithAlt(0, 0, 1, 1, EssentialText, 0, 1),
         WithAlt(0, 1, 1, 1, "About", 0, 0) >> }

\* the widths of the grids of the generator that is called twice
ReplayWidths == {2, 3}

\* the draws of the calls are recorded; a budget of at most MaxBudget attempts
InitReplay ==
    InitGeneratorWith(0 .. MaxBudget) /\ InitComponent /\ drawLog = Some(<< >>)

\* the caller keeps the list the first call returned (setTiles(newTiles)),
\* and the draws the call made
KeepFirstCall ==
    /\ pc = "done"
    /\ ~IsDefined(firstCall)
    /\ firstCall' = Some([tiles |-> tiles, draws |-> ValueOf(drawLog)])
    /\ UNCHANGED component
    /\ UNCHANGED <<MAX_PLACEMENT_ATTEMPTS, pc, gridWidth, gridHeight,
                   fixedTiles, grid, tiles, placementStrategy, fixedIndex,
                   attempts, error, outOfRange, repeated, typeDraw,
                   typeResult, drawLog>>

\* Math.random() returns in this call what it returned in the first call:
\* a draw that is made for the same purpose as the draw at the same place of
\* the first call has its value.  (Where a call would use the number for
\* another purpose, the number is not constrained.)
Replays(log) ==
    LET mine == ValueOf(log)
        first == ValueOf(firstCall).draws
    IN  \A k \in DOMAIN mine \cap DOMAIN first :
            Len(mine[k]) = Len(first[k]) => mine[k] = first[k]

\* the draws <<rand, row, col>> of the attempts of the generator that is
\* called twice: a single cell, a tile of two columns and a tile of two rows,
\* which fit or not according to the fixed tiles and the earlier attempts
ReplayDraws == { <<0, 0, 1>>, <<30, 1, 0>>, <<50, 0, 0>> }

\* an attempt of the first call
FirstAttempt ==
    /\ ~IsDefined(firstCall)
    /\ \E draw \in ReplayDraws : RandomAttemptWith(draw[1], draw[2], draw[3])

\* an attempt of a later call, in which Math.random() returns what it
\* returned in the first call
ReplayAttempt ==
    /\ IsDefined(firstCall)
    /\ \E draw \in ReplayDraws : RandomAttemptWith(draw[1], draw[2], draw[3])
    /\ Replays(drawLog')

\* the gap filling of a later call, with the colour draws of the first call
ReplayFill ==
    /\ IsDefined(firstCall)
    /\ FillEmptyCells
    /\ Replays(drawLog')

\* Two and more generatePattern() calls on one generator of a grid of two
\* rows: the first with any draws, the later ones with the draws of the
\* first.
NextReplay ==
    \/ \E width \in ReplayWidths, fixed \in ReplayFixedTileSets :
          Construct(width, 2, fixed)
    \/ (pc = "done" => IsDefined(firstCall)) /\ GenerateReset
    \/ Determine
    \/ PlaceFixedTile
    \/ PlaceFixedEnd
    \/ PlaceEssentialTiles
    \/ FirstAttempt
    \/ ReplayAttempt
    \/ ~IsDefined(firstCall) /\ FillEmptyCells
    \/ ReplayFill
    \/ KeepFirstCall

SpecReplay == InitReplay /\ [][NextReplay]_vars

\* one call of getRandomTileType() on its own: const rand = Math.random(),
\* and the entry of TILE_TYPES the call returns
GetRandomTileType ==
    /\ \E rand \in Draws :
          /\ typeDraw' = Some(rand)
          /\ typeResult' = Some(getRandomTileType(rand))
    /\ UNCHANGED component
    /\ UNCHANGED <<MAX_PLACEMENT_ATTEMPTS, pc, gridWidth, gridHeight,
                   fixedTiles, grid, tiles, placementStrategy, fixedIndex,
                   attempts, error, outOfRange, repeated, drawLog, firstCall>>

\* getRandomTileType() for every draw
NextTileType == GetRandomTileType

SpecTileType == Init /\ [][NextTileType]_vars

----------------------------------------------------------------------------
(* MosaicGrid component.  A handler or effect runs to its end before the
   next one starts; the state updates it queues are applied by the next
   render, and the callbacks of a render close over the state of that
   render.  generateMosaic() runs the generator above: construction, the
   steps of generatePattern(), then setTiles. *)

\* no handler or effect is running and no generator is alive
Idle == handler = "none" /\ pc = "new"

\* the state updates and the effects have run
Quiescent == Idle /\ pending = NoUpdates /\ effects = << >>

\* the object calculateGridDimensions passes to setGridDimensions: a new
\* object, whose identity differs from the one of the current state
calculateGridDimensions(size) ==
    [width |-> (size[1] \div TILE_SIZE) + 1,
     height |-> (size[2] \div TILE_SIZE) + 1,
     ref |-> 1 - gridDimensions.ref]

\* a generateMosaic that depends on gridDimensions only
generateMosaicDepsWithoutPage(state) == << state.gridDimensions >>

\* the dependency list of generateMosaic: [gridDimensions, currentPage]
generateMosaicDeps(state) == << state.gridDimensions, state.currentPage >>

\* the page a navigation label selects
NavigationTarget(text) ==
    CASE text = Some("About") -> Some("about")
      [] text = Some("Projects") -> Some("projects")
      [] text = Some("Charlie Beutter") -> Some("home")
      [] OTHER -> Undefined

\* the first effect: calculateGridDimensions() (and the resize listener)
ResizeEffect ==
    /\ Idle
    /\ effects /= << >>
    /\ Head(effects) = "resize"
    /\ pending' = [pending EXCEPT
                     !.gridDimensions = Some(calculateGridDimensions(innerSize))]
    /\ effects' = Tail(effects)
    /\ UNCHANGED <<innerSize, currentPage, gridDimensions, tilesState,
                   isInitialLoad, rendered, handler, generatedFrom, lastEvent>>
    /\ UNCHANGED <<MAX_PLACEMENT_ATTEMPTS, pc, gridWidth, gridHeight,
                   fixedTiles, grid, tiles, placementStrategy, fixedIndex,
                   attempts, error, outOfRange, repeated, typeDraw,
                   typeResult, drawLog, firstCall>>

\* the second effect: generateMosaic(), run after a render whose
\* generateMosaic differs from the one of the render before
GenerateEffect ==
    /\ Idle
    /\ effects /= << >>
    /\ Head(effects) = "generate"
    /\ handler' = "effect"
    /\ effects' = Tail(effects)
    /\ UNCHANGED <<innerSize, currentPage, gridDimensions, tilesState,
                   isInitialLoad, rendered, pending, generatedFrom, lastEvent>>
    /\ UNCHANGED <<MAX_PLACEMENT_ATTEMPTS, pc, gridWidth, gridHeight,
                   fixedTiles, grid, tiles, placementStrategy, fixedIndex,
                   attempts, error, outOfRange, repeated, typeDraw,
                   typeResult, drawLog, firstCall>>

\* the resize listener is registered: the first effect has run
ListenerAdded == \A i \in DOMAIN effects : effects[i] /= "resize"

\* the window is resized: handleResize calls calculateGridDimensions().
\* The event is handled between two handlers, whatever is still pending:
\* queued state updates and effects that have not run do not delay it.
HandleResize ==
    /\ Idle
    /\ ListenerAdded
    /\ \E size \in WindowSizes :
         /\ innerSize' = size
         /\ pending' = [pending EXCEPT
                          !.gridDimensions = Some(calculateGridDimensions(size))]
    /\ lastEvent' = [kind |-> "resize", text |-> Undefined,
                     page |-> currentPage]
    /\ UNCHANGED <<currentPage, gridDimensions, tilesState, isInitialLoad,
                   rendered, effects, handler, generatedFrom>>
    /\ UNCHANGED <<MAX_PLACEMENT_ATTEMPTS, pc, gridWidth, gridHeight,
                   fixedTiles, grid, tiles, placementStrategy, fixedIndex,
                   attempts, error, outOfRange, repeated, typeDraw,
                   typeResult, drawLog, firstCall>>

\* handleTileClick on a displayed tile, up to its call of generateMosaic(true):
\* a navigation label queues the page, a tile with a url opens it.  The
\* click is handled between two handlers, whatever is still pending.
HandleTileClick ==
    /\ Idle
    /\ \E k \in DOMAIN tilesState :
         LET text == tilesState[k].text
             url == tilesState[k].url
         IN  IF IsDefined(NavigationTarget(text))
             THEN /\ pending' = [pending EXCEPT
                                   !.currentPage = NavigationTarget(text)]
                  /\ handler' = "click"
                  /\ lastEvent' = [kind |-> "navigate", text |-> text,
                                   page |-> currentPage]
             ELSE /\ IsDefined(url)
                  /\ lastEvent' = [kind |-> "open", text |-> text,
                                   page |-> currentPage]
                  /\ UNCHANGED <<pending, handler>>
    /\ UNCHANGED <<innerSize, currentPage, gridDimensions, tilesState,
                   isInitialLoad, rendered, effects, generatedFrom>>
    /\ UNCHANGED <<MAX_PLACEMENT_ATTEMPTS, pc, gridWidth, gridHeight,
                   fixedTiles, grid, tiles, placementStrategy, fixedIndex,
                   attempts, error, outOfRange, repeated, typeDraw,
                   typeResult, drawLog, firstCall>>

\* generateMosaic: new MosaicGenerator(gridDimensions.width,
\* gridDimensions.height, allFixedTiles), with the gridDimensions and the
\* currentPage the callback closed over
GenerateMosaic ==
    /\ handler \in {"click", "effect"}
    /\ Construct(rendered.gridDimensions.width, rendered.gridDimensions.height,
                 allFixedTiles(rendered.currentPage))

\* generateMosaic after generatePattern() has returned: setTiles(newTiles)
\* and, for a regeneration, setIsInitialLoad(false); the generator is dropped
SetTiles ==
    /\ handler \in {"click", "effect"}
    /\ pc = "done"
    /\ pending' = [pending EXCEPT
                     !.tiles = Some([list |-> tiles, from |-> fixedTiles]),
                     !.isInitialLoad =
                         IF handler = "click" THEN Some(FALSE) ELSE @]
    /\ handler' = "none"
    /\ pc' = "new"
    /\ gridWidth' = 0
    /\ gridHeight' = 0
    /\ fixedTiles' = << >>
    /\ grid' = {}
    /\ tiles' = << >>
    /\ placementStrategy' = "none"
    /\ fixedIndex' = 0
    /\ attempts' = 0
    /\ UNCHANGED <<innerSize, currentPage, gridDimensions, tilesState,
                   isInitialLoad, rendered, effects, generatedFrom, lastEvent>>
    /\ UNCHANGED <<MAX_PLACEMENT_ATTEMPTS, error, outOfRange, repeated,
                   typeDraw, typeResult, drawLog, firstCall>>

\* the render after a handler or the effects: the queued updates become the
\* state, the callbacks close over it, and the effect of generateMosaic is
\* scheduled when the dependencies of generateMosaic have changed
Render ==
    /\ Idle
    /\ effects = << >>
    /\ pending /= NoUpdates
    /\ currentPage' = OrElse(pending.currentPage, currentPage)
    /\ gridDimensions' = OrElse(pending.gridDimensions, gridDimensions)
    /\ tilesState' = IF IsDefined(pending.tiles)
                     THEN ValueOf(pending.tiles).list ELSE tilesState
    /\ generatedFrom' = IF IsDefined(pending.tiles)
                        THEN ValueOf(pending.tiles).from ELSE generatedFrom
    /\ isInitialLoad' = OrElse(pending.isInitialLoad, isInitialLoad)
    /\ rendered' = [gridDimensions |-> gridDimensions',
                    currentPage |-> currentPage']
    /\ effects' = IF generateMosaicDeps(rendered') /= generateMosaicDeps(rendered)
                  THEN << "generate" >> ELSE << >>
    /\ pending' = NoUpdates
    /\ UNCHANGED <<innerSize, handler, lastEvent>>
    /\ UNCHANGED <<MAX_PLACEMENT_ATTEMPTS, pc, gridWidth, gridHeight,
                   fixedTiles, grid, tiles, placementStrategy, fixedIndex,
                   attempts, error, outOfRange, repeated, typeDraw,
                   typeResult, drawLog, firstCall>>

\* the draws of the random attempts of the component's generators: an
\* attempt at the top left cell and one on the row of the navigation tiles
ComponentDraws == { <<0, 0, 0>>, <<98, 1, 0>> }

ComponentAttempt ==
    \E draw \in ComponentDraws : RandomAttemptWith(draw[1], draw[2], draw[3])

NextComponent ==
    \/ ResizeEffect
    \/ GenerateEffect
    \/ HandleResize
    \/ HandleTileClick
    \/ GenerateMosaic
    \/ pc = "ready" /\ GenerateReset
    \/ Determine
    \/ PlaceFixedTile
    \/ PlaceEssentialTiles
    \/ ComponentAttempt
    \/ FillEmptyCells
    \/ SetTiles
    \/ Render

SpecComponent == Init /\ [][NextComponent]_vars

----------------------------------------------------------------------------
(* The simpler generator of src/MosaicGrid.tsx: its fixed-tile loop, run on
   the same gridWidth, gridHeight and fixedTiles.  The loop draws no random
   number besides the ids; g is the generator's own matrix. *)

\* canPlaceTile of the simpler generator on its matrix g
simpleCanPlaceTile(g, row, col, width, height) ==
    IF row + height > gridHeight \/ col + width > gridWidth THEN "false"
    ELSE IF Cells(row, col, width, height) = {} THEN "true"
    ELSE IF row < 0 THEN "throw"
    ELSE IF Cells(row, col, width, height) \cap g /= {} THEN "false"
    ELSE "true"

\* the test of one position: the two bound comparisons, then canPlaceTile
simpleTest(g, p) ==
    IF p.col + p.width <= gridWidth - 1 /\ p.row + p.height <= gridHeight - 1
    THEN simpleCanPlaceTile(g, p.row, p.col, p.width, p.height)
    ELSE "false"

\* the primary position of the loop
simplePrimary(fixedTile) ==
    [row |-> normalizeCoordinate(fixedTile.row, gridHeight - 1),
     col |-> normalizeCoordinate(fixedTile.col, gridWidth - 1),
     width |-> fixedTile.width, height |-> fixedTile.height]

\* the alternate position of the loop: the declared width and height
simpleAlternate(fixedTile) ==
    [row |-> normalizeCoordinate(ValueOf(fixedTile.altRow), gridHeight - 1),
     col |-> normalizeCoordinate(ValueOf(fixedTile.altCol), gridWidth - 1),
     width |-> fixedTile.width, height |-> fixedTile.height]

\* a loop without the second try at the alternate position
simpleCandidatesPrimaryOnly(fixedTile) == << simplePrimary(fixedTile) >>

\* the positions the loop tries for a tile, in order
simpleCandidates(fixedTile) ==
    IF IsDefined(fixedTile.altRow) /\ IsDefined(fixedTile.altCol)
    THEN << simplePrimary(fixedTile), simpleAlternate(fixedTile) >>
    ELSE << simplePrimary(fixedTile) >>

\* the tile pushed by the loop at position p
simpleTile(fixedTile, p) ==
    [row |-> p.row, col |-> p.col, width |-> p.width, height |-> p.height,
     id |-> TileId("fixed", p.row, p.col,
                   CHOOSE time \in Timestamps : TRUE,
                   CHOOSE random \in IdSuffixes : TRUE),
     color |-> fixedTile.color, text |-> fixedTile.text,
     url |-> fixedTile.url, fontSize |-> fixedTile.fontSize,
     kind |-> "fixed"]

\* the loop from fixed tile `index` on, with matrix g and output list;
\* threw: canPlaceTile raised the TypeError and the call ended;
\* placed: for each tile pushed from `index` on, the index of its fixed tile
\* and the position it was placed at
RECURSIVE simpleFixedLoop(_, _, _)
simpleFixedLoop(index, g, list) ==
    IF index > Len(fixedTiles)
    THEN [threw |-> FALSE, grid |-> g, tiles |-> list, placed |-> << >>]
    ELSE LET fixedTile == fixedTiles[index]
             tried == simpleCandidates(fixedTile)
             first == simpleTest(g, tried[1])
             second == IF Len(tried) > 1 THEN simpleTest(g, tried[2])
                       ELSE "false"
             Placed(p) ==
                 LET rest == simpleFixedLoop(index + 1,
                                 g \cup Cells(p.row, p.col, p.width, p.height),
                                 Append(list, simpleTile(fixedTile, p)))
                 IN  [rest EXCEPT
                         !.placed = << [index |-> index, at |-> p] >> \o @]
         IN  IF first = "throw"
             THEN [threw |-> TRUE, grid |-> g, tiles |-> list,
                   placed |-> << >>]
             ELSE IF first = "true" THEN Placed(tried[1])
             ELSE IF second = "throw"
             THEN [threw |-> TRUE, grid |-> g, tiles |-> list,
                   placed |-> << >>]
             ELSE IF second = "true" THEN Placed(tried[2])
             ELSE simpleFixedLoop(index + 1, g, list)

\* generatePattern of the simpler generator up to the end of its fixed loop
simpleFixedPhase == simpleFixedLoop(1, resetGrid, << >>)

----------------------------------------------------------------------------
(* Vocabulary of the properties *)

\* generatePattern() has returned `tiles`
Returned == pc = "done"

\* a generator exists: the constructor returned
Constructed == pc \notin {"new"} /\ error /= "RangeError"

\* a grid of at least 1x1
ValidGrid == gridWidth >= 1 /\ gridHeight >= 1

RectCells(p) == Cells(p.row, p.col, p.width, p.height)

Overlap(p, q) == RectCells(p) \cap RectCells(q) /= {}

\* the rectangle lies inside the matrix
InsideGrid(p) ==
    /\ p.row >= 0
    /\ p.col >= 0
    /\ p.row + p.height <= gridHeight
    /\ p.col + p.width <= gridWidth

\* the rectangle lies inside the usable span of fixed tiles
InsideSpan(p) ==
    /\ p.row >= 0
    /\ p.col >= 0
    /\ p.row + p.height <= gridHeight - 1
    /\ p.col + p.width <= gridWidth - 1

Primary(i) == getNormalizedTilePosition(fixedTiles[i], FALSE)
Alternate(i) == getNormalizedTilePosition(fixedTiles[i], TRUE)

\* the tiles of the list that cover a cell
Covering(cell) == { k \in DOMAIN tiles : cell \in RectCells(tiles[k]) }

RECURSIVE CoveredCells(_)
CoveredCells(n) ==
    IF n = 0 THEN 0
    ELSE CoveredCells(n - 1) + tiles[n].width * tiles[n].height

FixedOutput == { k \in DOMAIN tiles : tiles[k].kind = "fixed" }

\* tile k of the output is fixed tile i at position p
EmittedAt(k, i, p) ==
    /\ tiles[k].kind = "fixed"
    /\ tiles[k].text = fixedTiles[i].text
    /\ tiles[k].row = p.row
    /\ tiles[k].col = p.col
    /\ tiles[k].width = p.width
    /\ tiles[k].height = p.height

----------------------------------------------------------------------------
(* Properties *)

\* C1: on a grid of at least 1x1, when generatePattern() has returned,
\* every cell of the grid is covered by exactly one returned tile, no two
\* returned rectangles intersect, and the covered cells sum to width*height.
C1_ExactCover ==
    (Returned /\ ValidGrid) =>
        /\ \A cell \in Matrix : Cardinality(Covering(cell)) = 1
        /\ \A k, m \in DOMAIN tiles : k /= m => ~Overlap(tiles[k], tiles[m])
        /\ CoveredCells(Len(tiles)) = gridWidth * gridHeight

\* C2: every returned tile lies inside the grid: row >= 0, col >= 0,
\* row + height <= gridHeight and col + width <= gridWidth.
C2_TilesInsideGrid ==
    (Returned /\ ValidGrid) =>
        \A k \in DOMAIN tiles : InsideGrid(tiles[k])

\* C3: on a grid of at least 1x1, generatePattern() raises no exception and
\* neither reads nor writes the occupancy matrix outside its rows and columns.
C3_NoExceptionNoOutsideAccess ==
    ValidGrid => (error = "none" /\ ~outOfRange)

\* two fixed tiles whose primary rectangles lie in the usable span and
\* overlap each other, while their alternate rectangles lie in the usable
\* span and do not overlap
OverlappingPrimaries ==
    /\ Len(fixedTiles) = 2
    /\ InsideSpan(Primary(1)) /\ InsideSpan(Primary(2))
    /\ Overlap(Primary(1), Primary(2))
    /\ InsideSpan(Alternate(1)) /\ InsideSpan(Alternate(2))
    /\ ~Overlap(Alternate(1), Alternate(2))

\* C4: when the primary rectangles of two fixed tiles overlap and their
\* alternate rectangles fit without overlapping, the strategy is ALTERNATE
\* and both tiles are emitted at their alternate coordinates.
C4_OverlapChoosesAlternate ==
    (ValidGrid /\ OverlappingPrimaries /\ placementStrategy /= "none") =>
        /\ placementStrategy = "alternative"
        /\ Returned =>
              \A i \in 1 .. 2 : \E k \in DOMAIN tiles : EmittedAt(k, i, Alternate(i))

\* fixed tile i fits at its primary rectangle and overlaps no other primary
FitsAlone(i) ==
    /\ InsideSpan(Primary(i))
    /\ \A j \in DOMAIN fixedTiles : j /= i => ~Overlap(Primary(i), Primary(j))

\* C5 as stated: if one fixed tile's primary rectangle fits and overlaps no
\* other fixed tile's primary rectangle, the strategy is PRIMARY and the tile
\* is emitted at exactly its normalized primary rectangle.
C5_AsStated ==
    \A i \in DOMAIN fixedTiles :
        (ValidGrid /\ FitsAlone(i) /\ placementStrategy /= "none") =>
            /\ placementStrategy = "primary"
            /\ Returned => \E k \in DOMAIN tiles : EmittedAt(k, i, Primary(i))

\* C5 amended: if every fixed tile's primary rectangle fits in the usable
\* span, the strategy is PRIMARY, and each fixed tile whose primary rectangle
\* overlaps no other fixed tile's primary rectangle is emitted at exactly its
\* normalized primary rectangle.
C5_PrimaryWhenAllFit ==
    ((\A j \in DOMAIN fixedTiles : InsideSpan(Primary(j)))
        /\ placementStrategy /= "none") =>
        /\ placementStrategy = "primary"
        /\ Returned =>
              \A i \in DOMAIN fixedTiles :
                  FitsAlone(i) => \E k \in DOMAIN tiles : EmittedAt(k, i, Primary(i))

\* a returned list in which one of two fitting fixed tiles stands alone at
\* its primary rectangle
C5_Witness ==
    /\ Returned
    /\ Len(fixedTiles) = 2
    /\ \A j \in DOMAIN fixedTiles : InsideSpan(Primary(j))
    /\ placementStrategy = "primary"
    /\ FitsAlone(2)
    /\ \E k \in DOMAIN tiles : EmittedAt(k, 2, Primary(2))

\* C6: under FALLBACK, generation completes; the output holds exactly one
\* fixed tile, the essential tile at its normalized primary rectangle, when
\* that rectangle fits, and no fixed tile when it does not.
C6_EssentialFallback ==
    (ValidGrid /\ placementStrategy = "fallback") =>
        /\ pc /= "threw"
        /\ pc \in {"random", "fill", "done"} =>
              IF charlieTile /= 0 /\ InsideSpan(Primary(charlieTile))
              THEN /\ Cardinality(FixedOutput) = 1
                   /\ \A k \in FixedOutput :
                         EmittedAt(k, charlieTile, Primary(charlieTile))
              ELSE FixedOutput = {}

ProbeCoordinates == -1 .. 2
ProbeSizes == 1 .. 2

\* C7: canPlaceTile returns true exactly when the rectangle lies inside the
\* grid and none of its cells is occupied.
C7_CanPlaceIffInsideAndFree ==
    (Constructed /\ ValidGrid) =>
        \A row \in ProbeCoordinates, col \in ProbeCoordinates,
           width \in ProbeSizes, height \in ProbeSizes :
            LET p == [row |-> row, col |-> col, width |-> width, height |-> height]
            IN  (canPlaceTile(row, col, width, height) = "true")
                    <=> (InsideGrid(p) /\ RectCells(p) \cap grid = {})

\* C8: constructing a generator with a width or height of 0 or less is
\* rejected by the constructor.
C8_NonPositiveRejected ==
    (pc /= "new" /\ (gridWidth <= 0 \/ gridHeight <= 0)) =>
        (pc = "threw" /\ error = "RangeError")

\* C9: every generatePattern() call, the first and the later ones, starts
\* its placement with no cell occupied, and when it returns every cell of the
\* matrix is covered by exactly one tile of the list of this call, whose
\* rectangles do not intersect.
C9_EachCallStartsClean ==
    /\ pc = "determine" => grid = {}
    /\ Returned =>
          /\ \A cell \in Matrix : Cardinality(Covering(cell)) = 1
          /\ \A k, m \in DOMAIN tiles : k /= m => ~Overlap(tiles[k], tiles[m])

\* a second call has returned a list with a fixed, a random and a gap tile
C9_Witness ==
    /\ Returned
    /\ repeated
    /\ \E k, m, n \in DOMAIN tiles :
          /\ tiles[k].kind = "fixed"
          /\ tiles[m].kind = "random"
          /\ tiles[n].kind = "fill"

\* C10: the ids of the tiles of one generatePattern() call are pairwise
\* distinct, also when all tiles carry the same timestamp and random suffix.
C10_DistinctIds ==
    \A k, m \in DOMAIN tiles : k /= m => tiles[k].id /= tiles[m].id

\* a returned list of fixed, random and gap tiles that were all stamped with
\* the same timestamp and the same random suffix
C10_Witness ==
    /\ Returned
    /\ \A k \in DOMAIN tiles : tiles[k].id =
          TileId(tiles[k].kind, tiles[k].row, tiles[k].col, 0, "0.25")
    /\ \E k, m, n \in DOMAIN tiles :
          /\ tiles[k].kind = "fixed"
          /\ tiles[m].kind = "random"
          /\ tiles[n].kind = "fill"

\* the declared coordinate c of a fixed tile, counted from the end of the
\* span d when it is negative
FromSpanEnd(c, d) == IF c >= 0 THEN c ELSE d + c

ProbeDeclared == -3 .. 3
ProbeSpans == 0 .. 15

\* C11: normalizeCoordinate(c, d) returns c when c >= 0 and d + c when
\* c < 0; the positions of fixed tiles are normalized with d = gridHeight - 1
\* for rows and d = gridWidth - 1 for columns; and a fixed tile declared at
\* row -1 that fits alone on a grid of height 15 is placed at row 13.
C11_NegativeCountsFromSpanEnd ==
    /\ \A c \in ProbeDeclared, d \in ProbeSpans :
          normalizeCoordinate(c, d) = FromSpanEnd(c, d)
    /\ normalizeCoordinate(-1, 15 - 1) = 13
    /\ Constructed =>
          \A i \in DOMAIN fixedTiles :
              /\ Primary(i).row = FromSpanEnd(fixedTiles[i].row, gridHeight - 1)
              /\ Primary(i).col = FromSpanEnd(fixedTiles[i].col, gridWidth - 1)
              /\ (IsDefined(fixedTiles[i].altRow) /\ IsDefined(fixedTiles[i].altCol)) =>
                    /\ Alternate(i).row =
                          FromSpanEnd(ValueOf(fixedTiles[i].altRow), gridHeight - 1)
                    /\ Alternate(i).col =
                          FromSpanEnd(ValueOf(fixedTiles[i].altCol), gridWidth - 1)
    /\ (Returned /\ gridHeight = 15 /\ placementStrategy = "primary") =>
          \A i \in DOMAIN fixedTiles :
              (fixedTiles[i].row = -1 /\ FitsAlone(i)) =>
                  \E k \in DOMAIN tiles :
                      EmittedAt(k, i, Primary(i)) /\ tiles[k].row = 13

\* the tile declared at row -1 was emitted on the grid of height 15
C11_Witness ==
    /\ Returned
    /\ gridHeight = 15
    /\ fixedTiles[1].row = -1
    /\ \E k \in DOMAIN tiles : tiles[k].kind = "fixed" /\ tiles[k].row = 13

\* C12: with an empty list of fixed tiles and an attempt budget of 0, the
\* list generatePattern() returns holds exactly gridWidth * gridHeight tiles,
\* each of size 1x1, one on every cell of the grid.
C12_UnitTilesOnly ==
    (Returned /\ fixedTiles = << >> /\ MAX_PLACEMENT_ATTEMPTS = 0) =>
        /\ Len(tiles) = gridWidth * gridHeight
        /\ \A k \in DOMAIN tiles : tiles[k].width = 1 /\ tiles[k].height = 1
        /\ \A cell \in Matrix : Cardinality(Covering(cell)) = 1

\* a pass without fixed tiles and without random attempts has returned the
\* list for a grid of several rows and columns
C12_Witness ==
    /\ Returned
    /\ fixedTiles = << >>
    /\ MAX_PLACEMENT_ATTEMPTS = 0
    /\ gridWidth >= 2 /\ gridHeight >= 2
    /\ Len(tiles) = gridWidth * gridHeight

\* the entries of the palette whose cumulative weight exceeds the draw u
Exceeding(u) == { i \in 1 .. Len(TILE_TYPES) : CumulativeWeight(i) > u }

Shape(type) == <<type.width, type.height>>

\* the draw typeDraw has returned a tile type of this shape
Drew(u, shape) ==
    (IsDefined(typeResult) /\ ValueOf(typeDraw) = u) =>
        Shape(ValueOf(typeResult)) = shape

\* C13: for a draw u, getRandomTileType() returns the first entry of the
\* palette, in declaration order, whose cumulative weight is strictly
\* greater than u, and the first entry of the palette when no cumulative
\* weight exceeds u.
C13_FirstEntryAboveDraw ==
    /\ IsDefined(typeResult) =>
          LET u == ValueOf(typeDraw)
          IN  IF Exceeding(u) = {}
              THEN ValueOf(typeResult) = TILE_TYPES[1]
              ELSE \E i \in Exceeding(u) :
                      /\ \A j \in Exceeding(u) : i <= j
                      /\ ValueOf(typeResult) = TILE_TYPES[i]
    /\ Drew(29, <<1, 1>>) /\ Drew(30, <<2, 1>>) /\ Drew(50, <<1, 2>>)
    /\ Drew(79, <<2, 2>>) /\ Drew(87, <<1, 3>>) /\ Drew(88, <<3, 1>>)
    /\ Drew(97, <<2, 3>>) /\ Drew(99, <<3, 2>>) /\ Drew(100, <<1, 1>>)

\* a draw that no cumulative weight exceeds has returned the first entry
C13_Witness ==
    /\ IsDefined(typeResult)
    /\ Exceeding(ValueOf(typeDraw)) = {}
    /\ ValueOf(typeResult) = TILE_TYPES[1]

\* what the claim compares of a tile: all its fields but the id
Visible(tile) ==
    [row |-> tile.row, col |-> tile.col, width |-> tile.width,
     height |-> tile.height, color |-> tile.color, text |-> tile.text,
     url |-> tile.url, fontSize |-> tile.fontSize]

VisibleList(list) == [k \in DOMAIN list |-> Visible(list[k])]

\* a later call has returned after the draws of the first call
ReturnedAfterSameDraws ==
    /\ Returned
    /\ repeated
    /\ IsDefined(firstCall)
    /\ Replays(drawLog)

\* C14: two generatePattern() calls with the same grid size, the same list
\* of fixed tiles and the same sequence of random draws return the same
\* sequence of tiles (row, col, width, height, color, text, url, fontSize);
\* the later call makes the draws of the first, no more and no fewer.
C14_SameDrawsSameTiles ==
    ReturnedAfterSameDraws =>
        /\ VisibleList(tiles) = VisibleList(ValueOf(firstCall).tiles)
        /\ drawLog = Some(ValueOf(firstCall).draws)

\* a later call has returned, at a later time and after the draws of the
\* first call, a list with a fixed tile, two random tiles of different
\* colours placed by the second and the third attempt, and gap tiles of
\* different colours
C14_Witness ==
    /\ ReturnedAfterSameDraws
    /\ MAX_PLACEMENT_ATTEMPTS >= 3
    /\ gridWidth = 3
    /\ \E k \in DOMAIN tiles : tiles[k].kind = "fixed"
    /\ \E m, n \in DOMAIN tiles :
          /\ tiles[m].kind = "random" /\ tiles[n].kind = "random"
          /\ tiles[m].color /= tiles[n].color
    /\ \E m, n \in DOMAIN tiles :
          /\ tiles[m].kind = "fill" /\ tiles[n].kind = "fill"
          /\ tiles[m].color /= tiles[n].color
    /\ Len(ValueOf(firstCall).draws[1]) = 3
    /\ Len(ValueOf(firstCall).draws[2]) = 3
    /\ \E k \in DOMAIN tiles :
          tiles[k].id /= ValueOf(firstCall).tiles[k].id

\* the rectangle the strategy chooses for fixed tile i
Chosen(i) == getNormalizedTilePosition(fixedTiles[i], useAlternative)

\* placeFixedTiles has returned
FixedPhaseOver == pc \in {"random", "fill", "done"}

\* C15: whenever the strategy of a pass is 'primary' or 'alternative', every
\* fixed tile of the list passes the re-validation at placement time and is
\* emitted at its chosen rectangle: none is dropped, also when the chosen
\* rectangles of two fixed tiles overlap.
C15_NoFixedTileDropped ==
    (ValidGrid /\ FixedPhaseOver
        /\ placementStrategy \in {"primary", "alternative"}) =>
        /\ \A i \in DOMAIN fixedTiles :
              \E k \in DOMAIN tiles : EmittedAt(k, i, Chosen(i))
        /\ Cardinality(FixedOutput) = Len(fixedTiles)

\* fixed tile i declares an alternative position that differs from its
\* primary position
DeclaresAlternate(i) ==
    /\ IsDefined(fixedTiles[i].altRow)
    /\ IsDefined(fixedTiles[i].altCol)
    /\ Alternate(i) /= Primary(i)

\* the emitted fixed tiles that declare such an alternative position
Moving ==
    { i \in DOMAIN fixedTiles :
        /\ DeclaresAlternate(i)
        /\ \E k \in FixedOutput : tiles[k].text = fixedTiles[i].text }

\* C16: no list of generatePattern() mixes positions: among the emitted
\* fixed tiles that declare an alternative position different from their
\* primary one, either all sit at their primary rectangle or all sit at
\* their alternative rectangle.
C16_NoMixedPositions ==
    \/ \A i \in Moving : \E k \in DOMAIN tiles : EmittedAt(k, i, Primary(i))
    \/ \A i \in Moving : \E k \in DOMAIN tiles : EmittedAt(k, i, Alternate(i))

\* two fixed tiles were emitted at their alternative rectangles
C16_Witness ==
    /\ Returned
    /\ placementStrategy = "alternative"
    /\ Cardinality(Moving) = 2
    /\ \A i \in Moving : \E k \in DOMAIN tiles : EmittedAt(k, i, Alternate(i))

\* the phase a tile of the list was pushed in
PhaseOfKind(kind) ==
    CASE kind = "fixed" -> 1 [] kind = "random" -> 2 [] kind = "fill" -> 3

\* the list and the counters agree with the order of the phases: fixed
\* tiles before random tiles before gap tiles; before and during the placing
\* of the fixed tiles there is no random attempt and no random or gap tile;
\* during the random attempts, which start when the loop over the fixed
\* tiles is through, there is no gap tile
InPhaseOrder ==
    /\ \A k, m \in DOMAIN tiles :
          k < m => PhaseOfKind(tiles[k].kind) <= PhaseOfKind(tiles[m].kind)
    /\ pc \in {"determine", "fixed"} =>
          /\ attempts = 0
          /\ \A k \in DOMAIN tiles : tiles[k].kind = "fixed"
    /\ pc = "random" => \A k \in DOMAIN tiles : tiles[k].kind /= "fill"
    /\ (FixedPhaseOver /\ placementStrategy /= "fallback") =>
          fixedIndex > Len(fixedTiles)

\* one step of a call moves to the next phase or stays in its phase (or
\* leaves the call with an exception); a call starts with the reset; and a
\* phase only pushes tiles of its kind
PhaseStep ==
    /\ pc' = "determine" =>
          pc \in {"ready", "done", "threw"} /\ grid' = {} /\ tiles' = << >>
    /\ pc = "determine" => pc' \in {"fixed", "threw"}
    /\ pc = "fixed" => pc' \in {"fixed", "threw", AfterRandom(0)}
    /\ pc = "random" => pc' \in {"random", "fill", "threw"}
    /\ (pc /= "fill" /\ pc' = "fill") => attempts' = MAX_PLACEMENT_ATTEMPTS
    /\ pc = "fill" => pc' = "done"
    /\ pc' = "done" => pc = "fill"
    /\ (pc \in {"fixed", "random", "fill"} /\ tiles' /= tiles) =>
          /\ Len(tiles') > Len(tiles)
          /\ SubSeq(tiles', 1, Len(tiles)) = tiles
          /\ \A k \in (Len(tiles) + 1) .. Len(tiles') : tiles'[k].kind = pc

\* C17: one generatePattern() call goes through the phases reset, fixed
\* tiles, random tiles, gap filling, done in exactly this order (a call that
\* raises an exception ends in the phase that raised it); so in the list
\* every fixed tile precedes every random tile and every random tile
\* precedes every gap tile, and no random attempt is made before the last
\* fixed tile has been placed or dropped.
C17_PhasesInOrder == []InPhaseOrder /\ [][PhaseStep]_vars

\* a call has returned two fixed tiles, then a random tile, then gap tiles
C17_Witness ==
    /\ Returned
    /\ attempts >= 1
    /\ Cardinality(FixedOutput) = 2
    /\ \E n \in DOMAIN tiles :
          /\ n > 3
          /\ tiles[3].kind = "random"
          /\ tiles[n].kind = "fill"

\* the cells of the last row and of the last column of the grid
LastRowOrColumn ==
    { cell \in Matrix : cell[1] = gridHeight - 1 \/ cell[2] = gridWidth - 1 }

\* C18: every emitted fixed tile satisfies row + height <= gridHeight - 1
\* and col + width <= gridWidth - 1, so that no fixed tile covers a cell of
\* the last row or of the last column; random and gap tiles are checked
\* against the full grid and may cover those cells.
C18_FixedTilesInUsableSpan ==
    \A k \in FixedOutput :
        /\ tiles[k].row + tiles[k].height <= gridHeight - 1
        /\ tiles[k].col + tiles[k].width <= gridWidth - 1
        /\ RectCells(tiles[k]) \cap LastRowOrColumn = {}

\* a returned list with a fixed tile, a random tile on the last column and
\* a gap tile on the last row
C18_Witness ==
    /\ Returned
    /\ FixedOutput /= {}
    /\ \E m, n \in DOMAIN tiles :
          /\ tiles[m].kind = "random"
          /\ tiles[m].col + tiles[m].width = gridWidth
          /\ tiles[n].kind = "fill"
          /\ tiles[n].row = gridHeight - 1

\* the tiles a step appends to the list
Appended == SubSeq(tiles', Len(tiles) + 1, Len(tiles'))

\* cell a comes before cell b in row-major order
RowMajorBefore(a, b) == a[1] < b[1] \/ (a[1] = b[1] /\ a[2] < b[2])

\* what the gap filling does to the list and the matrix
GapFilling ==
    (pc = "fill" /\ pc' = "done") =>
        /\ SubSeq(tiles', 1, Len(tiles)) = tiles
        /\ Len(Appended) = Cardinality(Matrix \ grid)
        /\ \A k \in DOMAIN Appended :
              /\ Appended[k].width = 1 /\ Appended[k].height = 1
              /\ <<Appended[k].row, Appended[k].col>> \in Matrix \ grid
        /\ \A k, m \in DOMAIN Appended :
              k < m => RowMajorBefore(<<Appended[k].row, Appended[k].col>>,
                                      <<Appended[m].row, Appended[m].col>>)
        /\ grid' = grid \cup Matrix

\* C19: the gap filler emits exactly one 1x1 tile for each cell that is
\* unoccupied when the random phase ends, in row-major order (ascending
\* row, then ascending column), emits none for an occupied cell, and leaves
\* every cell of the grid occupied.
C19_GapFillerFillsEachFreeCellOnce == [][GapFilling]_vars

\* the gap filler has skipped the cells of a fixed and of a random tile and
\* appended tiles on both rows of the grid
C19_Witness ==
    /\ Returned
    /\ \E k, m, n, o \in DOMAIN tiles :
          /\ tiles[k].kind = "fixed"
          /\ tiles[m].kind = "random"
          /\ tiles[n].kind = "fill" /\ tiles[o].kind = "fill"
          /\ n < o
          /\ tiles[n].row < tiles[o].row
    /\ Len(tiles) < gridWidth * gridHeight

RandomOutput == { k \in DOMAIN tiles : tiles[k].kind = "random" }

\* generatePattern() is running
InCall == pc \in {"determine", "fixed", "random", "fill"}

\* a bound on the steps the running call has left
StepsLeft ==
    CASE pc = "determine" ->
            (Len(fixedTiles) + 2) + (MAX_PLACEMENT_ATTEMPTS + 1)
      [] pc = "fixed" ->
            (Len(fixedTiles) + 2 - fixedIndex) + (MAX_PLACEMENT_ATTEMPTS + 1)
      [] pc = "random" -> (MAX_PLACEMENT_ATTEMPTS - attempts) + 1
      [] pc = "fill" -> 1
      [] OTHER -> 0

\* the loop counter stays within the budget, the random phase is left after
\* exactly MAX_PLACEMENT_ATTEMPTS attempts, there are no more random tiles
\* than attempts, and a running call can always take a step
BudgetKept ==
    /\ attempts \in 0 .. MAX_PLACEMENT_ATTEMPTS
    /\ pc = "random" => attempts < MAX_PLACEMENT_ATTEMPTS
    /\ pc \in {"fill", "done"} => attempts = MAX_PLACEMENT_ATTEMPTS
    /\ Cardinality(RandomOutput) <= attempts
    /\ StepsLeft >= 0
    /\ InCall => ENABLED Next

\* an attempt counts once, never raises an exception, and either pushes one
\* random tile and marks its cells or leaves the matrix and the list as they
\* are; and every step of a running call lowers the bound on the steps left
AttemptStep ==
    /\ pc = "random" =>
          /\ attempts' = attempts + 1
          /\ pc' \in {"random", "fill"}
          /\ \/ tiles' = tiles /\ grid' = grid
             \/ /\ Len(tiles') = Len(tiles) + 1
                /\ SubSeq(tiles', 1, Len(tiles)) = tiles
                /\ tiles'[Len(tiles')].kind = "random"
                /\ RectCells(tiles'[Len(tiles')]) \cap grid = {}
                /\ grid' = grid \cup RectCells(tiles'[Len(tiles')])
    /\ pc /= "random" => attempts' \in {attempts, 0}
    /\ InCall => StepsLeft' < StepsLeft

\* C20: the random phase makes exactly MAX_PLACEMENT_ATTEMPTS attempts,
\* however many succeed; each attempt emits at most one tile and otherwise
\* leaves the matrix and the list unchanged; so there are at most as many
\* random tiles as the budget, and every generatePattern() call ends after a
\* bounded number of steps.
C20_ExactlyBudgetAttempts == []BudgetKept /\ [][AttemptStep]_vars

\* the random phase is over after a full budget of three or more attempts,
\* of which two have placed a tile next to the fixed tile and the others none
C20_Witness ==
    /\ pc = "fill"
    /\ ValidGrid
    /\ MAX_PLACEMENT_ATTEMPTS >= 3
    /\ attempts = MAX_PLACEMENT_ATTEMPTS
    /\ Cardinality(RandomOutput) = 2
    /\ \E k \in DOMAIN fixedTiles : InsideSpan(Primary(k))
    /\ FixedOutput /= {}

----------------------------------------------------------------------------
(* C21 *)

\* no fixed tile of the list declares altWidth or altHeight
NoAlternateSize ==
    \A i \in DOMAIN fixedTiles :
        /\ ~IsDefined(fixedTiles[i].altWidth)
        /\ ~IsDefined(fixedTiles[i].altHeight)

\* the fixed placements of the page-aware pass and of the simpler loop
PageAwarePlacements == { Visible(tiles[k]) : k \in FixedOutput }
SimplePlacements ==
    { Visible(simpleFixedPhase.tiles[k]) : k \in DOMAIN simpleFixedPhase.tiles }

\* both generators are past their fixed tiles on the same grid and list
BothPlaced ==
    /\ Constructed
    /\ ValidGrid
    /\ FixedPhaseOver
    /\ NoAlternateSize
    /\ ~simpleFixedPhase.threw

\* the positions the strategy of the page-aware pass gives fixed tile i:
\* its primary position, its alternative position (the primary one when it
\* declares none), or, under the fallback, the primary position of the
\* essential tile and none for the other tiles
StrategyPositions(i) ==
    CASE placementStrategy = "primary" -> { Primary(i) }
      [] placementStrategy = "alternative" -> { Alternate(i) }
      [] placementStrategy = "fallback" ->
             IF i = charlieTile THEN { Primary(i) } ELSE {}
      [] OTHER -> {}

\* every tile the simpler loop places is at the position the strategy of the
\* page-aware pass gives it
SimpleFollowsStrategy ==
    \A k \in DOMAIN simpleFixedPhase.placed :
        simpleFixedPhase.placed[k].at
            \in StrategyPositions(simpleFixedPhase.placed[k].index)

\* no two fixed tiles of the list have the same text
DistinctTexts ==
    \A i, j \in DOMAIN fixedTiles :
        fixedTiles[i].text = fixedTiles[j].text => i = j

\* the two generators emit the same fixed tiles in the same order
SameFixedTiles ==
    VisibleList(simpleFixedPhase.tiles)
        = VisibleList(SubSeq(tiles, 1, Cardinality(FixedOutput)))

\* C21 as stated: for the same grid size and the same fixed-tile list
\* (without altWidth/altHeight), the fixed placements of the simpler
\* generator are the fixed placements of the page-aware generator.
C21_AsStated == BothPlaced => SimplePlacements = PageAwarePlacements

\* C21: for the same grid size and the same fixed-tile list (without
\* altWidth/altHeight), the simpler generator and the page-aware generator
\* emit the same fixed tiles in the same order when every tile the simpler
\* generator places is at the position the strategy of the page-aware
\* generator gives it (primary positions under PRIMARY, alternative
\* positions under ALTERNATIVE, the essential tile at its primary position
\* under FALLBACK), and, for a list of tiles with distinct texts, only then.
C21_SameWhenSimpleFollowsStrategy ==
    BothPlaced =>
        /\ SimpleFollowsStrategy => SameFixedTiles
        /\ (DistinctTexts /\ SameFixedTiles) => SimpleFollowsStrategy

\* both generators have placed the two tiles of a list at their alternative
\* positions, the simpler one after each primary position failed
C21_Witness ==
    /\ BothPlaced
    /\ Returned
    /\ placementStrategy = "alternative"
    /\ SimpleFollowsStrategy
    /\ SameFixedTiles
    /\ Len(fixedTiles) = 2
    /\ Len(simpleFixedPhase.placed) = 2
    /\ \A k \in DOMAIN simpleFixedPhase.placed :
           /\ DeclaresAlternate(simpleFixedPhase.placed[k].index)
           /\ simpleFixedPhase.placed[k].at
                  = Alternate(simpleFixedPhase.placed[k].index)

----------------------------------------------------------------------------
(* C22 *)

\* the last event handled is a click on a navigation tile
AfterNavigation == Quiescent /\ lastEvent.kind = "navigate"

\* the texts of the fixed tiles of a page
FixedTexts(page) ==
    { allFixedTiles(page)[i].text : i \in DOMAIN allFixedTiles(page) }

\* the displayed list was generated from the fixed tiles of the page, on the
\* grid of the current dimensions
DisplayedListOf(page) ==
    /\ generatedFrom = allFixedTiles(page)
    /\ \A k \in DOMAIN tilesState :
         /\ tilesState[k].kind = "fixed" => tilesState[k].text \in FixedTexts(page)
         /\ tilesState[k].row + tilesState[k].height <= gridDimensions.height
         /\ tilesState[k].col + tilesState[k].width <= gridDimensions.width

\* C22: after a click on a navigation tile ("About", "Projects" or
\* "Charlie Beutter"), once the state updates and the effects have run, the
\* current page is the page of the label and the displayed tile list is one
\* generated from STATIC_TILES plus the fixed tiles of that page, not of the
\* page that was current when the click happened.
\* This holds whatever was pending when the click was handled, and the list
\* is the one of the current page whenever the component has settled.
C22_DisplayedListOfSelectedPage ==
    /\ AfterNavigation =>
          /\ Some(currentPage) = NavigationTarget(lastEvent.text)
          /\ DisplayedListOf(currentPage)
          /\ tilesState /= << >>
    /\ Quiescent => DisplayedListOf(currentPage)

\* a click on "About" on the home page has been handled to its end: the list
\* shows the essential tile and no navigation tile of the home page
C22_Witness ==
    /\ AfterNavigation
    /\ lastEvent.page = "home"
    /\ currentPage = "about"
    /\ generatedFrom /= allFixedTiles(lastEvent.page)
    /\ \E k \in DOMAIN tilesState : tilesState[k].text = Some("Charlie Beutter")
    /\ isInitialLoad = FALSE

----------------------------------------------------------------------------
(* C23 *)

\* the cells covered by the first n tiles of a list
CoveredBy(list, n) == UNION { RectCells(list[k]) : k \in 1 .. n }

\* no cell is covered by two of the first n tiles of a list
CoveredOnce(list, n) ==
    \A k, m \in 1 .. n : k /= m => ~Overlap(list[k], list[m])

\* a generatePattern() call is running, has returned or was left by the
\* TypeError
InPass == pc \in {"determine", "fixed", "random", "fill", "done"}
              \/ (pc = "threw" /\ error = "TypeError")

\* the cells marked occupied are the cells covered by the appended tiles,
\* and no cell is covered twice
OccupiedIffCovered ==
    InPass =>
        /\ grid = CoveredBy(tiles, Len(tiles))
        /\ CoveredOnce(tiles, Len(tiles))

\* the gap filling, which is one step: after each of its placements the
\* cells marked so far (the cells marked before it and the cells of the gap
\* tiles appended so far) are the cells covered by the tiles appended so
\* far, and none is covered twice
GapPlacements ==
    (pc = "fill" /\ pc' = "done") =>
        \A n \in Len(tiles) .. Len(tiles') :
            /\ SubSeq(tiles', 1, Len(tiles)) = tiles
            /\ grid \cup UNION { RectCells(tiles'[k]) : k \in (Len(tiles) + 1) .. n }
                   = CoveredBy(tiles', n)
            /\ CoveredOnce(tiles', n)
            /\ n = Len(tiles') => grid' = CoveredBy(tiles', n)

\* C23: at every point of a generation pass (after each fixed, random or gap
\* placement), a grid cell is marked occupied if and only if it is covered
\* by a tile already appended to the output list, and it is covered by at
\* most one such tile.
C23_OccupiedIffCoveredOnce == []OccupiedIffCovered /\ [][GapPlacements]_vars

\* the random attempts are over on a grid that still has free cells: a
\* fixed tile and a random tile of several cells are appended and marked
C23_Witness ==
    /\ pc = "fill"
    /\ ValidGrid
    /\ \E k \in DOMAIN tiles : tiles[k].kind = "fixed"
    /\ \E k \in DOMAIN tiles :
          tiles[k].kind = "random" /\ tiles[k].width * tiles[k].height > 1
    /\ grid /= Matrix
    /\ grid /= {}

====
